---- MODULE Spec2Model ----
(***************************************************************************)
(* Model of the `backup` pipeline orchestrator (a rustic wrapper).         *)
(*                                                                         *)
(* The state is the state of one process invocation: the parsed command    *)
(* line, the resolved configuration, the part of the filesystem the        *)
(* pipeline looks at (does the repository path exist, is the share         *)
(* mounted), the local variables of run() (the outcome list, the outcome   *)
(* just produced, its failed flag), the terminal output written so far,    *)
(* the list of the subprocesses spawned so far, and the position in        *)
(* main()/run().                                                           *)
(*                                                                         *)
(* Captured text (stdout, stderr) is a sequence of lines; the empty text   *)
(* is the empty sequence.  Optional values are None or the value.          *)
(***************************************************************************)
EXTENDS Integers, Sequences, FiniteSets, TLC

VARIABLES
    cli,        \* parsed command line (cli.rs, struct Cli)
    cfg,        \* resolved configuration (config.rs, struct Config)
    repoExists, \* filesystem: Path::new(&cfg.repo.path).exists()
    pc,         \* position in main() / run()
    stage,      \* the pipeline stage run() is working on ("none" outside one)
    cur,        \* the local outcome of that stage (mount, mkdir, init, ...)
    failed,     \* the local `failed` / `mount_failed` / `backup_failed`
    outcomes,   \* run(): let mut outcomes: Vec<StageOutcome>
    term,       \* everything written to stdout / stderr, in order
    spawned,    \* every subprocess launched, in order
    initTest,   \* what the repo-exists test of run() found: "none" until it is
                \* taken, then "exists" or "absent"
    result,     \* what run() returned: ret (has returned), ok (Ok or Err), msg
    exitCode,   \* process exit status (-1 while running)
    spinner,    \* the active busy-indicator: None, or the label it shows
    rsLabel,    \* run_stage: parameter `label`
    rsArgs,     \* run_stage: parameter `args`
    rsResult,   \* run_stage: local `result`, what run_captured returned
    osAnswer,   \* what the operating system answered to the last launch of
                \* run_captured
    mountSt,    \* filesystem, as the last call of mount_share met and left it:
                \* was the share really mounted, what create_dir_all did
    repoInit    \* filesystem: the directory at cfg.repo.path holds an
                \* initialised repository

vars == <<cli, cfg, repoExists, pc, stage, cur, failed, outcomes, term,
          spawned, initTest, result, exitCode, spinner, rsLabel, rsArgs,
          rsResult, osAnswer, mountSt, repoInit>>

\* The state of a call of run_stage.
uiVars == <<spinner, rsLabel, rsArgs, rsResult, osAnswer>>

None == "None"

\* No call of run_captured has returned yet / nothing was launched yet.
NoResult == [tag |-> "none"]

----------------------------------------------------------------------------
(* Inputs the environment can supply.                                      *)

\* Number of lines of the non-empty text a subprocess writes to a stream.
MaxLines == 2

\* Texts a subprocess may write to one of its streams: nothing, or MaxLines
\* lines.
Texts == { <<>>, [i \in 1..MaxLines |-> "output line"] }

\* [mount].share values: unset, a share of the share map, an unknown name.
Shares == { None, "new-backups", "bogus" }

\* What Command::output() can give for one launch: a spawn error, or an
\* exit status with the two captured streams.
ExecResults ==
    { [spawn |-> FALSE, ok |-> FALSE, stdout |-> <<>>, stderr |-> <<>>] }
    \cup { [spawn |-> TRUE, ok |-> b, stdout |-> t, stderr |-> t] :
             b \in BOOLEAN, t \in Texts }

----------------------------------------------------------------------------
(* runner.rs : argument construction                                       *)

prefix(c) == IF c.sudo THEN <<"doas">> ELSE <<>>

\* Variant of rustic_base: the repository path is quoted as for a shell.
rustic_base_QuotesPath(c, f) ==
    (prefix(c) \o <<"rustic">>)
    \o <<"-r", "'" \o f.repo.path \o "'", "--password", f.repo.password>>

rustic_base(c, f) ==
    (prefix(c) \o <<"rustic">>) \o <<"-r", f.repo.path, "--password", f.repo.password>>

----------------------------------------------------------------------------
(* commands/run.rs : argument builders                                     *)

\* i64 / u32 .to_string() for the small non-negative numbers used here.
Digits == <<"0", "1", "2", "3", "4", "5", "6", "7", "8", "9">>

RECURSIVE to_string(_)
to_string(n) ==
    IF n < 10 THEN Digits[n + 1]
    ELSE to_string(n \div 10) \o Digits[(n % 10) + 1]

\* Variant of build_mkdir_args: the privilege prefix is forgotten.
build_mkdir_args_NoPrefix(c, f) == <<"mkdir", "-p", f.repo.path>>

build_mkdir_args(c, f) == prefix(c) \o <<"mkdir", "-p", f.repo.path>>

build_init_args(c, f) == rustic_base(c, f) \o <<"init">>

build_check_args(c, f) == rustic_base(c, f) \o <<"check">>

\* Variant of GlobTokens: the tokens come out in reverse order.
RECURSIVE GlobTokens_Reversed(_)
GlobTokens_Reversed(globs) ==
    IF globs = <<>> THEN <<>>
    ELSE GlobTokens_Reversed(Tail(globs)) \o <<"--glob=" \o Head(globs)>>

RECURSIVE GlobTokens(_)
GlobTokens(globs) ==
    IF globs = <<>> THEN <<>>
    ELSE <<"--glob=" \o Head(globs)>> \o GlobTokens(Tail(globs))

\* Variant of build_backup_args: the default source "." is always there,
\* the configured sources follow it.
build_backup_args_AlwaysDot(c, f) ==
    LET sources == <<".">> \o f.backup.sources
    IN  rustic_base(c, f)
        \o <<"backup">>
        \o <<"--set-compression", to_string(f.backup.compression),
             "--exclude-if-present", f.backup.exclude_if_present>>
        \o GlobTokens(f.backup.globs)
        \o sources

build_backup_args(c, f) ==
    LET sources == IF f.backup.sources = <<>> THEN <<".">> ELSE f.backup.sources
    IN  rustic_base(c, f)
        \o <<"backup">>
        \o <<"--set-compression", to_string(f.backup.compression),
             "--exclude-if-present", f.backup.exclude_if_present>>
        \o GlobTokens(f.backup.globs)
        \o sources

\* Variant of build_forget_args: --no-prune takes the --prune flag away.
build_forget_args_HonoursNoPrune(c, f) ==
    rustic_base(c, f)
    \o <<"forget">>
    \o (IF c.no_prune THEN <<>> ELSE <<"--prune">>)
    \o <<"--keep-daily", to_string(f.retention.daily),
         "--keep-weekly", to_string(f.retention.weekly),
         "--keep-monthly", to_string(f.retention.monthly)>>

\* Variant of build_forget_args: the weekly and monthly counts are swapped.
build_forget_args_SwapsCounts(c, f) ==
    rustic_base(c, f)
    \o <<"forget", "--prune",
         "--keep-daily", to_string(f.retention.daily),
         "--keep-weekly", to_string(f.retention.monthly),
         "--keep-monthly", to_string(f.retention.weekly)>>

build_forget_args(c, f) ==
    rustic_base(c, f)
    \o <<"forget", "--prune",
         "--keep-daily", to_string(f.retention.daily),
         "--keep-weekly", to_string(f.retention.weekly),
         "--keep-monthly", to_string(f.retention.monthly)>>

build_compact_args(c, f) == rustic_base(c, f) \o <<"prune">>

----------------------------------------------------------------------------
(* ui.rs : captured execution, stage runner, reporter                      *)

\* [String]::join(" ")
RECURSIVE join(_)
join(args) ==
    IF args = <<>> THEN ""
    ELSE IF Len(args) = 1 THEN args[1]
    ELSE args[1] \o " " \o join(Tail(args))

\* Variant of run_captured: a non-zero exit is turned into an error.
run_captured_NonZeroIsErr(args, r) ==
    IF args = <<>> THEN [isOk |-> FALSE, err |-> "cannot run an empty command"]
    ELSE IF ~r.spawn THEN [isOk |-> FALSE, err |-> "failed to spawn: " \o join(args)]
    ELSE IF ~r.ok THEN [isOk |-> FALSE, err |-> "command failed: " \o join(args)]
    ELSE [isOk |-> TRUE, success |-> r.ok, stdout |-> r.stdout, stderr |-> r.stderr]

\* run_captured(args): Err(message) or Ok((success, stdout, stderr)).
\* `r` is what the operating system answers for the launch.
run_captured(args, r) ==
    IF args = <<>> THEN [isOk |-> FALSE, err |-> "cannot run an empty command"]
    ELSE IF ~r.spawn THEN [isOk |-> FALSE, err |-> "failed to spawn: " \o join(args)]
    ELSE [isOk |-> TRUE, success |-> r.ok, stdout |-> r.stdout, stderr |-> r.stderr]

\* Variant of StageOutcomeOf: a non-zero exit carries no error message.
StageOutcomeOf_NoErrorOnExit(label, args, res) ==
    IF res.isOk
      THEN [label |-> label, success |-> res.success,
            stdout |-> res.stdout, stderr |-> res.stderr, error |-> None]
    ELSE [label |-> label, success |-> FALSE,
          stdout |-> <<>>, stderr |-> <<>>, error |-> res.err]

\* Variant of StageOutcomeOf: `success` says that the command ran, not
\* that it exited zero.
StageOutcomeOf_SuccessIfRan(label, args, res) ==
    IF res.isOk /\ res.success
      THEN [label |-> label, success |-> TRUE,
            stdout |-> res.stdout, stderr |-> res.stderr, error |-> None]
    ELSE IF res.isOk
      THEN [label |-> label, success |-> TRUE,
            stdout |-> res.stdout, stderr |-> res.stderr,
            error |-> "command exited non-zero: " \o join(args)]
    ELSE [label |-> label, success |-> FALSE,
          stdout |-> <<>>, stderr |-> <<>>, error |-> res.err]

\* Variant of StageOutcomeOf: the captured output of a command that exited
\* non-zero is dropped.
StageOutcomeOf_DropsOutput(label, args, res) ==
    IF res.isOk /\ res.success
      THEN [label |-> label, success |-> TRUE,
            stdout |-> res.stdout, stderr |-> res.stderr, error |-> None]
    ELSE IF res.isOk
      THEN [label |-> label, success |-> FALSE,
            stdout |-> <<>>, stderr |-> <<>>,
            error |-> "command exited non-zero: " \o join(args)]
    ELSE [label |-> label, success |-> FALSE,
          stdout |-> <<>>, stderr |-> <<>>, error |-> res.err]

\* run_stage: the `match result { ... }` that builds the outcome from what
\* run_captured returned.
StageOutcomeOf(label, args, res) ==
    IF res.isOk /\ res.success
      THEN [label |-> label, success |-> TRUE,
            stdout |-> res.stdout, stderr |-> res.stderr, error |-> None]
    ELSE IF res.isOk
      THEN [label |-> label, success |-> FALSE,
            stdout |-> res.stdout, stderr |-> res.stderr,
            error |-> "command exited non-zero: " \o join(args)]
    ELSE [label |-> label, success |-> FALSE,
          stdout |-> <<>>, stderr |-> <<>>, error |-> res.err]

\* run_stage(label, args), given the executor's answer.
run_stage(label, args, r) == StageOutcomeOf(label, args, run_captured(args, r))

\* Variant of skipped_stage: a skip is reported as a failure.
skipped_stage_AsFailure(label) ==
    [label |-> label, success |-> FALSE, stdout |-> <<>>, stderr |-> <<>>,
     error |-> "skipped"]

skipped_stage(label) ==
    [label |-> label, success |-> TRUE, stdout |-> <<>>, stderr |-> <<>>,
     error |-> None]

\* StageOutcome::failed
Failed(o) == ~o.success


\* One line written to the terminal: the stream, what kind of line, its text.
Line(stream, kind, text) == [stream |-> stream, kind |-> kind, text |-> text]

RECURSIVE Replay(_)
Replay(text) ==
    IF text = <<>> THEN <<>>
    ELSE <<Line("err", "line", Head(text))>> \o Replay(Tail(text))

\* Variant of print: the captured stderr is replayed before the stdout.
print_StderrFirst(o) ==
    IF o.success THEN << Line("out", "status_ok", o.label) >>
    ELSE << Line("out", "status_err", o.label) >>
         \o (IF o.error # None
               THEN << Line("err", "blank", ""), Line("err", "error", o.error) >>
               ELSE <<>>)
         \o (IF o.stderr # <<>>
               THEN << Line("err", "blank", ""), Line("err", "hdr", "stderr:") >>
                    \o Replay(o.stderr)
               ELSE <<>>)
         \o (IF o.stdout # <<>>
               THEN << Line("err", "blank", ""), Line("err", "hdr", "stdout:") >>
                    \o Replay(o.stdout)
               ELSE <<>>)

\* StageOutcome::print
print(o) ==
    IF o.success THEN << Line("out", "status_ok", o.label) >>
    ELSE << Line("out", "status_err", o.label) >>
         \o (IF o.error # None
               THEN << Line("err", "blank", ""), Line("err", "error", o.error) >>
               ELSE <<>>)
         \o (IF o.stdout # <<>>
               THEN << Line("err", "blank", ""), Line("err", "hdr", "stdout:") >>
                    \o Replay(o.stdout)
               ELSE <<>>)
         \o (IF o.stderr # <<>>
               THEN << Line("err", "blank", ""), Line("err", "hdr", "stderr:") >>
                    \o Replay(o.stderr)
               ELSE <<>>)

RECURSIVE FailedOf(_)
FailedOf(os) ==
    IF os = <<>> THEN <<>>
    ELSE (IF Failed(Head(os)) THEN <<Head(os)>> ELSE <<>>) \o FailedOf(Tail(os))

RECURSIVE FailedLabels(_)
FailedLabels(fs) ==
    IF fs = <<>> THEN <<>>
    ELSE <<Line("err", "failed_label", Head(fs).label)>> \o FailedLabels(Tail(fs))

\* Variant of print_summary: under the failure banner every stage is listed,
\* not only the failed ones.
print_summary_ListsAll(os) ==
    LET fl == FailedOf(os)
    IN  << Line("out", "blank", "") >>
        \o (IF fl = <<>>
              THEN << Line("out", "banner_ok", "All stages completed successfully.") >>
              ELSE << Line("err", "banner_fail", "Backup failed.") >>
                   \o [i \in 1..Len(os) |->
                         Line("err", "failed_label", os[i].label)])
        \o << Line("out", "blank", "") >>

\* print_summary
print_summary(os) ==
    LET fl == FailedOf(os)
    IN  << Line("out", "blank", "") >>
        \o (IF fl = <<>>
              THEN << Line("out", "banner_ok", "All stages completed successfully.") >>
              ELSE << Line("err", "banner_fail", "Backup failed.") >> \o FailedLabels(fl))
        \o << Line("out", "blank", "") >>

----------------------------------------------------------------------------
(* mount.rs                                                                *)

nfs_source(name) ==
    IF name = "new-documents" THEN "documents.lan:/documents"
    ELSE IF name = "new-backups" THEN "nas.lan:/mnt/vol2/backups"
    ELSE IF name \in {"isos", "pictures", "movies", "videos", "backups",
                      "owncloud", "lan-share", "repos", "documents"}
      THEN "nas.lan:/mnt/vol1/" \o name
    ELSE None

\* $USER of the model's environment.
EnvUser == "yonas"

effective_user(m) == IF m.user # None THEN m.user ELSE EnvUser

\* A launched subprocess: the argument vector, whether its output is piped
\* into the program (captured) or inherited from the terminal, and whether a
\* spinner was active while it ran, whether the process could be started,
\* and whether it exited zero.
Launch(args, captured, spinning, started, ok) ==
    [args |-> args, captured |-> captured, spinner |-> spinning,
     started |-> started, ok |-> ok]

\* What the environment answers to the steps of try_mount.
\* A mounted share is at a mountpoint that ends with its name, so a list
\* that could be fetched shows it on a line containing the name; a line may
\* contain the name of a share that is not mounted.
MountEnvs ==
    { e \in
        [isMounted : BOOLEAN,   \* the share is mounted
         listSpawn : BOOLEAN,   \* `doas mount` could be launched
         listOk    : BOOLEAN,   \* ... and exited zero
         listed    : BOOLEAN,   \* a line of its output contains the share name
         mkdirOk   : BOOLEAN,   \* create_dir_all succeeded
         mountSpawn: BOOLEAN,   \* `doas mount -t nfs` could be launched
         mountOk   : BOOLEAN]   \* ... and exited zero
      : (e.isMounted /\ e.listSpawn /\ e.listOk) => e.listed }

\* The context message of try_mount for a configuration without a share
\* (its dash is written "--" and its backquotes "'" here).
ShareNotSet ==
    "[mount].share is not set -- add 'share = \"new-backups\"' to backup.toml"

\* Variant of try_mount: the share is looked at only after the list of
\* mounts was fetched.
try_mount_ListsFirst(m, e) ==
    LET list == Launch(<<"doas", "mount">>, TRUE, FALSE, e.listSpawn,
                       e.listSpawn /\ e.listOk)
    IN  IF ~e.listSpawn
          THEN [isOk |-> FALSE, launched |-> <<list>>, mounted |-> FALSE,
                msg |-> "failed to run doas mount", mkdir |-> "none"]
          ELSE [isOk |-> FALSE, launched |-> <<list>>, mounted |-> FALSE,
                msg |-> ShareNotSet, mkdir |-> "none"]

\* try_mount: the Result, the subprocesses launched on the way, whether the
\* nfs mount was carried out, and what create_dir_all did ("none" when it
\* was not called).
try_mount(m, e) ==
    IF m.share = None
      THEN [isOk |-> FALSE, launched |-> <<>>, mounted |-> FALSE,
            msg |-> ShareNotSet, mkdir |-> "none"]
    ELSE
    LET share      == m.share
        mountpoint == "/home/" \o effective_user(m) \o "/nfs/" \o share
        list       == Launch(<<"doas", "mount">>, TRUE, FALSE, e.listSpawn,
                       e.listSpawn /\ e.listOk)
        source     == nfs_source(share)
        mnt        == Launch(<<"doas", "mount", "-t", "nfs", source, mountpoint>>,
                             FALSE, FALSE, e.mountSpawn,
                             e.mountSpawn /\ e.mountOk)
    IN  IF ~e.listSpawn
          THEN [isOk |-> FALSE, launched |-> <<list>>, mounted |-> FALSE,
                msg |-> "failed to run doas mount", mkdir |-> "none"]
        ELSE IF e.listed
          THEN [isOk |-> TRUE, launched |-> <<list>>, mounted |-> FALSE,
                msg |-> share \o " already mounted at " \o mountpoint, mkdir |-> "none"]
        ELSE IF ~e.mkdirOk
          THEN [isOk |-> FALSE, launched |-> <<list>>, mounted |-> FALSE,
                msg |-> "mkdir -p " \o mountpoint, mkdir |-> "failed"]
        ELSE IF source = None
          THEN [isOk |-> FALSE, launched |-> <<list>>, mounted |-> FALSE,
                msg |-> "unknown share name: '" \o share \o "'", mkdir |-> "ok"]
        ELSE IF ~e.mountSpawn
          THEN [isOk |-> FALSE, launched |-> <<list, mnt>>, mounted |-> FALSE,
                msg |-> "failed to spawn doas mount", mkdir |-> "ok"]
        ELSE IF ~e.mountOk
          THEN [isOk |-> FALSE, launched |-> <<list, mnt>>, mounted |-> FALSE,
                msg |-> "doas mount -t nfs " \o source \o " " \o mountpoint
                        \o " exited non-zero", mkdir |-> "ok"]
        ELSE [isOk |-> TRUE, launched |-> <<list, mnt>>, mounted |-> TRUE,
              msg |-> "mounted " \o source \o " -> " \o mountpoint, mkdir |-> "ok"]

\* mount_share: the outcome built from try_mount's Result.
mount_share(m, e) ==
    LET r == try_mount(m, e)
    IN  IF r.isOk
          THEN [label |-> "Mount", success |-> TRUE, stdout |-> <<r.msg>>,
                stderr |-> <<>>, error |-> None]
          ELSE [label |-> "Mount", success |-> FALSE, stdout |-> <<>>,
                stderr |-> <<>>, error |-> r.msg]

----------------------------------------------------------------------------
(* The configuration and command line of one invocation.                   *)

Config(share) ==
    [repo      |-> [path |-> "/nfs/repo", password |-> "pw"],
     backup    |-> [sources |-> <<"/home/alice/project">>, compression |-> 3,
                    globs |-> <<"!**/.git", "!tmp/">>,
                    exclude_if_present |-> "ignore"],
     retention |-> [daily |-> 2, weekly |-> 1, monthly |-> 1],
     mount     |-> [share |-> share, user |-> None]]

Clis == [no_mount : BOOLEAN, no_prune : BOOLEAN, no_check : BOOLEAN,
         sudo : BOOLEAN, print_config : BOOLEAN]

----------------------------------------------------------------------------
(* commands/run.rs : the stages run() executes through run_stage           *)

RunStages == {"mkdir", "init", "check", "backup", "forget", "compact"}

Label(s) ==
    CASE s = "mkdir"   -> "Init (mkdir)"
      [] s = "init"    -> "Init (repo)"
      [] s = "check"   -> "Check"
      [] s = "backup"  -> "Backup"
      [] s = "forget"  -> "Forget"
      [] s = "compact" -> "Compact"

Args(s, c, f) ==
    CASE s = "mkdir"   -> build_mkdir_args(c, f)
      [] s = "init"    -> build_init_args(c, f)
      [] s = "check"   -> build_check_args(c, f)
      [] s = "backup"  -> build_backup_args(c, f)
      [] s = "forget"  -> build_forget_args(c, f)
      [] s = "compact" -> build_compact_args(c, f)

\* The message of the anyhow::bail! that follows a failed stage.
BailMsg(s) ==
    CASE s = "Mount"   -> "pipeline aborted: mount failed"
      [] s = "mkdir"   -> "pipeline aborted: could not create repo directory"
      [] s = "init"    -> "pipeline aborted: rustic init failed"
      [] s = "check"   -> "pipeline aborted: check failed"
      [] s = "backup"  -> "pipeline aborted: backup failed"
      [] s = "forget"  -> "pipeline aborted: forget failed"
      [] s = "compact" -> "pipeline aborted: compact failed"

\* Variant of After: Backup follows "Init (repo)" directly.
After_InitSkipsCheck(s) ==
    CASE s = "Mount"   -> [pc |-> "init_test",     stage |-> "none"]
      [] s = "mkdir"   -> [pc |-> "exec",          stage |-> "init"]
      [] s = "init"    -> [pc |-> "exec",          stage |-> "backup"]
      [] s = "check"   -> [pc |-> "exec",          stage |-> "backup"]
      [] s = "backup"  -> [pc |-> "prune_test",    stage |-> "none"]
      [] s = "forget"  -> [pc |-> "exec",          stage |-> "compact"]
      [] s = "compact" -> [pc |-> "final_summary", stage |-> "none"]

\* Where run() continues after a stage that did not fail: the position and
\* the stage worked on there.
After(s) ==
    CASE s = "Mount"   -> [pc |-> "init_test",     stage |-> "none"]
      [] s = "mkdir"   -> [pc |-> "exec",          stage |-> "init"]
      [] s = "init"    -> [pc |-> "check_test",    stage |-> "none"]
      [] s = "check"   -> [pc |-> "exec",          stage |-> "backup"]
      [] s = "backup"  -> [pc |-> "prune_test",    stage |-> "none"]
      [] s = "forget"  -> [pc |-> "exec",          stage |-> "compact"]
      [] s = "compact" -> [pc |-> "final_summary", stage |-> "none"]

----------------------------------------------------------------------------
(* The state machine                                                       *)

Init ==
    /\ cli \in Clis
    /\ cfg \in { Config(sh) : sh \in Shares }
    /\ repoExists \in BOOLEAN
    /\ pc = "main"
    /\ stage = "none"
    /\ cur = None
    /\ failed = FALSE
    /\ outcomes = <<>>
    /\ term = <<>>
    /\ spawned = <<>>
    /\ initTest = "none"
    /\ result = [ret |-> FALSE, ok |-> FALSE, msg |-> ""]
    /\ exitCode = -1
    /\ spinner = None
    /\ rsLabel = None
    /\ rsArgs = <<>>
    /\ rsResult = NoResult
    /\ osAnswer = NoResult
    /\ mountSt = NoResult
    /\ repoInit = repoExists

\* main: load_merged_config(&cli.config)? returns an error.
MainConfigError ==
    /\ pc = "main"
    /\ pc' = "exit"
    /\ exitCode' = 1
    /\ UNCHANGED <<mountSt, repoInit, cli, cfg, repoExists, stage, cur, failed, outcomes, term,
                   spawned, initTest, result>>
    /\ UNCHANGED uiVars

\* main: --print-config prints the configuration and returns Ok(()).
MainPrintConfig ==
    /\ pc = "main"
    /\ cli.print_config
    /\ term' = Append(term, Line("out", "config", "cfg"))
    /\ pc' = "exit"
    /\ exitCode' = 0
    /\ UNCHANGED <<mountSt, repoInit, cli, cfg, repoExists, stage, cur, failed, outcomes,
                   spawned, initTest, result>>
    /\ UNCHANGED uiVars

\* Variant of RunEnter: the repository path is tested on entry, before the
\* Mount stage.
RunEnter_TestsRepoFirst ==
    /\ pc = "main"
    /\ ~cli.print_config
    /\ term' = Append(term, Line("out", "blank", ""))
    /\ outcomes' = <<>>
    /\ initTest' = IF repoExists THEN "exists" ELSE "absent"
    /\ pc' = "exec"
    /\ stage' = "Mount"
    /\ UNCHANGED <<mountSt, repoInit, cli, cfg, repoExists, cur, failed, spawned,
                   result, exitCode>>
    /\ UNCHANGED uiVars

\* Variant of RunEnter: main calls run() whether or not --print-config was
\* given.
RunEnter_IgnoresPrintConfig ==
    /\ pc = "main"
    /\ term' = Append(term, Line("out", "blank", ""))
    /\ outcomes' = <<>>
    /\ pc' = "exec"
    /\ stage' = "Mount"
    /\ UNCHANGED <<mountSt, repoInit, cli, cfg, repoExists, cur, failed, spawned, initTest,
                   result, exitCode>>
    /\ UNCHANGED uiVars

\* main calls commands::run::run; run() prints a blank line and creates the
\* empty outcome list.
RunEnter ==
    /\ pc = "main"
    /\ ~cli.print_config
    /\ term' = Append(term, Line("out", "blank", ""))
    /\ outcomes' = <<>>
    /\ pc' = "exec"
    /\ stage' = "Mount"
    /\ UNCHANGED <<mountSt, repoInit, cli, cfg, repoExists, cur, failed, spawned, initTest,
                   result, exitCode>>
    /\ UNCHANGED uiVars

\* Variant of MountExec: only the flag decides, not the configured share.
MountExec_IgnoreShare ==
    /\ pc = "exec" /\ stage = "Mount"
    /\ IF ~cli.no_mount
         THEN \E e \in MountEnvs :
                LET r == try_mount(cfg.mount, e)
                IN  /\ cur' = mount_share(cfg.mount, e)
                    /\ spawned' = spawned \o r.launched
                    /\ mountSt' = [wasMounted |-> e.isMounted,
                                   mkdir |-> r.mkdir]
                    /\ IF r.mounted THEN repoExists' \in BOOLEAN
                                    ELSE repoExists' = repoExists
                    /\ repoInit' = IF r.mounted THEN repoExists' ELSE repoInit
         ELSE /\ cur' = skipped_stage("Mount")
              /\ UNCHANGED <<spawned, repoExists, mountSt, repoInit>>
    /\ pc' = "print"
    /\ UNCHANGED <<cli, cfg, stage, failed, outcomes, term, initTest, result,
                   exitCode>>
    /\ UNCHANGED uiVars

\* 1. Mount: mount_share or the synthetic skip.  Mounting the share may make
\* the repository path appear or disappear; a repository that appears with
\* the share is an initialised one.
MountExec ==
    /\ pc = "exec" /\ stage = "Mount"
    /\ IF ~cli.no_mount /\ cfg.mount.share # None
         THEN \E e \in MountEnvs :
                LET r == try_mount(cfg.mount, e)
                IN  /\ cur' = mount_share(cfg.mount, e)
                    /\ spawned' = spawned \o r.launched
                    /\ mountSt' = [wasMounted |-> e.isMounted,
                                   mkdir |-> r.mkdir]
                    /\ IF r.mounted THEN repoExists' \in BOOLEAN
                                    ELSE repoExists' = repoExists
                    /\ repoInit' = IF r.mounted THEN repoExists' ELSE repoInit
         ELSE /\ cur' = skipped_stage("Mount")
              /\ UNCHANGED <<spawned, repoExists, mountSt, repoInit>>
    /\ pc' = "print"
    /\ UNCHANGED <<cli, cfg, stage, failed, outcomes, term, initTest, result,
                   exitCode>>
    /\ UNCHANGED uiVars

\* Variant of RunStage: a placeholder outcome is recorded when the stage
\* starts.
RunStage_RecordsFirst ==
    /\ pc = "exec" /\ stage \in RunStages
    /\ rsLabel' = Label(stage)
    /\ rsArgs' = Args(stage, cli, cfg)
    /\ spinner' = Label(stage)
    /\ rsResult' = NoResult
    /\ osAnswer' = NoResult
    /\ outcomes' = Append(outcomes, skipped_stage(Label(stage)))
    /\ pc' = "rs_run"
    /\ UNCHANGED <<mountSt, repoInit, cli, cfg, repoExists, stage, cur, failed, term,
                   spawned, initTest, result, exitCode>>

\* let x = run_stage(label, &build_x_args(cli, cfg)) for the six stages run
\* through run_stage: the call, and run_stage's first statement
\* `let spinner = make_spinner(label);`.
RunStage ==
    /\ pc = "exec" /\ stage \in RunStages
    /\ rsLabel' = Label(stage)
    /\ rsArgs' = Args(stage, cli, cfg)
    /\ spinner' = Label(stage)
    /\ rsResult' = NoResult
    /\ osAnswer' = NoResult
    /\ pc' = "rs_run"
    /\ UNCHANGED <<mountSt, repoInit, cli, cfg, repoExists, stage, cur, failed, outcomes, term,
                   spawned, initTest, result, exitCode>>

\* run_stage: `let result = run_captured(args);` with the operating system
\* answering one of `answers` when a process is launched.  Nothing is
\* launched for an empty argument vector.  A successful `mkdir -p` of the
\* Init stage creates the repository path, a successful `rustic init`
\* initialises the repository.
RunCapturedWith(answers) ==
    /\ pc = "rs_run"
    /\ IF rsArgs = <<>>
         THEN /\ rsResult' = run_captured(rsArgs, NoResult)
              /\ UNCHANGED <<spawned, osAnswer, repoExists, repoInit>>
         ELSE \E r \in answers :
                /\ osAnswer' = r
                /\ rsResult' = run_captured(rsArgs, r)
                /\ spawned' = Append(spawned,
                                     Launch(rsArgs, TRUE, spinner # None, r.spawn,
                                            r.spawn /\ r.ok))
                /\ repoExists' = IF stage = "mkdir" /\ r.spawn /\ r.ok
                                   THEN TRUE ELSE repoExists
                /\ repoInit' = IF stage = "init" /\ r.spawn /\ r.ok
                                 THEN TRUE ELSE repoInit
    /\ pc' = "rs_clear"
    /\ UNCHANGED <<mountSt, cli, cfg, stage, cur, failed, outcomes, term, initTest,
                   result, exitCode, spinner, rsLabel, rsArgs>>

RunCaptured == RunCapturedWith(ExecResults)

\* Variant of FinishAndClear: stopping the spinner waits for a tick that
\* never comes.
FinishAndClear_Blocks ==
    /\ pc = "rs_clear"
    /\ UNCHANGED vars

\* Variant of FinishAndClear: the spinner is cleared only when run_captured
\* returned Ok.
FinishAndClear_OnlyOnOk ==
    /\ pc = "rs_clear"
    /\ spinner' = IF rsResult.isOk THEN None ELSE spinner
    /\ pc' = "rs_match"
    /\ UNCHANGED <<mountSt, repoInit, cli, cfg, repoExists, stage, cur, failed, outcomes, term,
                   spawned, initTest, result, exitCode, rsLabel, rsArgs,
                   rsResult, osAnswer>>

\* run_stage: `spinner.finish_and_clear();`
FinishAndClear ==
    /\ pc = "rs_clear"
    /\ spinner' = None
    /\ pc' = "rs_match"
    /\ UNCHANGED <<mountSt, repoInit, cli, cfg, repoExists, stage, cur, failed, outcomes, term,
                   spawned, initTest, result, exitCode, rsLabel, rsArgs,
                   rsResult, osAnswer>>

\* run_stage: `match result { ... }` and the return of the outcome to the
\* caller.
RunStageReturn ==
    /\ pc = "rs_match"
    /\ cur' = StageOutcomeOf(rsLabel, rsArgs, rsResult)
    /\ pc' = "print"
    /\ UNCHANGED <<mountSt, repoInit, cli, cfg, repoExists, stage, failed, outcomes, term,
                   spawned, initTest, result, exitCode>>
    /\ UNCHANGED uiVars

\* x.print();
StagePrint ==
    /\ pc = "print"
    /\ term' = term \o print(cur)
    /\ pc' = "push"
    /\ UNCHANGED <<mountSt, repoInit, cli, cfg, repoExists, stage, cur, failed, outcomes, spawned,
                   initTest, result, exitCode>>
    /\ UNCHANGED uiVars

\* Variant of StagePush: a failed outcome takes the abort branch before it
\* is pushed.
StagePush_AbortFirst ==
    /\ pc = "push"
    /\ failed' = Failed(cur)
    /\ IF Failed(cur)
         THEN /\ pc' = "abort_summary"
              /\ UNCHANGED <<outcomes, cur>>
         ELSE /\ outcomes' = Append(outcomes, cur)
              /\ cur' = None
              /\ pc' = "decide"
    /\ UNCHANGED <<mountSt, repoInit, cli, cfg, repoExists, stage, term, spawned, initTest,
                   result, exitCode>>
    /\ UNCHANGED uiVars

\* let failed = x.failed(); outcomes.push(x);
StagePush ==
    /\ pc = "push"
    /\ failed' = Failed(cur)
    /\ outcomes' = Append(outcomes, cur)
    /\ cur' = None
    /\ pc' = "decide"
    /\ UNCHANGED <<mountSt, repoInit, cli, cfg, repoExists, stage, term, spawned, initTest,
                   result, exitCode>>
    /\ UNCHANGED uiVars

\* Variant of StageDecide: a failed stage is run again.
StageDecide_Retries ==
    /\ pc = "decide"
    /\ IF failed
         THEN /\ pc' = "exec"
              /\ stage' = stage
         ELSE /\ pc' = After(stage).pc
              /\ stage' = After(stage).stage
    /\ UNCHANGED <<mountSt, repoInit, cli, cfg, repoExists, cur, failed, outcomes, term, spawned,
                   initTest, result, exitCode>>
    /\ UNCHANGED uiVars

\* Variant of StageDecide: the failed flag is never looked at.
StageDecide_NoAbort ==
    /\ pc = "decide"
    /\ pc' = After(stage).pc
    /\ stage' = After(stage).stage
    /\ UNCHANGED <<mountSt, repoInit, cli, cfg, repoExists, cur, failed, outcomes, term, spawned,
                   initTest, result, exitCode>>
    /\ UNCHANGED uiVars

\* Variant of StageDecide: a failed Compact does not abort.
StageDecide_CompactNonFatal ==
    /\ pc = "decide"
    /\ IF failed /\ stage # "compact"
         THEN /\ pc' = "abort_summary"
              /\ stage' = stage
         ELSE /\ pc' = After(stage).pc
              /\ stage' = After(stage).stage
    /\ UNCHANGED <<mountSt, repoInit, cli, cfg, repoExists, cur, failed, outcomes, term, spawned,
                   initTest, result, exitCode>>
    /\ UNCHANGED uiVars

\* Variant of StageDecide: a failed Init (mkdir) does not abort.
StageDecide_MkdirNonFatal ==
    /\ pc = "decide"
    /\ IF failed /\ stage # "mkdir"
         THEN /\ pc' = "abort_summary"
              /\ stage' = stage
         ELSE /\ pc' = After(stage).pc
              /\ stage' = After(stage).stage
    /\ UNCHANGED <<mountSt, repoInit, cli, cfg, repoExists, cur, failed, outcomes, term, spawned,
                   initTest, result, exitCode>>
    /\ UNCHANGED uiVars

\* Variant of StageDecide: a failed Mount does not abort.
StageDecide_MountNonFatal ==
    /\ pc = "decide"
    /\ IF failed /\ stage # "Mount"
         THEN /\ pc' = "abort_summary"
              /\ stage' = stage
         ELSE /\ pc' = After(stage).pc
              /\ stage' = After(stage).stage
    /\ UNCHANGED <<mountSt, repoInit, cli, cfg, repoExists, cur, failed, outcomes, term, spawned,
                   initTest, result, exitCode>>
    /\ UNCHANGED uiVars

\* if failed { ... } : enter the abort branch, or continue after the stage.
StageDecide ==
    /\ pc = "decide"
    /\ IF failed
         THEN /\ pc' = "abort_summary"
              /\ stage' = stage
         ELSE /\ pc' = After(stage).pc
              /\ stage' = After(stage).stage
    /\ UNCHANGED <<mountSt, repoInit, cli, cfg, repoExists, cur, failed, outcomes, term, spawned,
                   initTest, result, exitCode>>
    /\ UNCHANGED uiVars

\* Variant of AbortSummary: the abort branch bails without a summary.
AbortSummary_Skip ==
    /\ pc = "abort_summary"
    /\ pc' = "bail"
    /\ UNCHANGED <<mountSt, repoInit, cli, cfg, repoExists, stage, cur, failed, outcomes, term,
                   spawned, initTest, result, exitCode>>
    /\ UNCHANGED uiVars

\* print_summary(&outcomes); inside an abort branch
AbortSummary ==
    /\ pc = "abort_summary"
    /\ term' = term \o print_summary(outcomes)
    /\ pc' = "bail"
    /\ UNCHANGED <<mountSt, repoInit, cli, cfg, repoExists, stage, cur, failed, outcomes, spawned,
                   initTest, result, exitCode>>
    /\ UNCHANGED uiVars

\* Variant of Bail: the abort branch of Compact returns Ok(()).
Bail_CompactReturnsOk ==
    /\ pc = "bail"
    /\ result' = IF stage = "compact"
                   THEN [ret |-> TRUE, ok |-> TRUE, msg |-> ""]
                   ELSE [ret |-> TRUE, ok |-> FALSE, msg |-> BailMsg(stage)]
    /\ pc' = "run_returned"
    /\ UNCHANGED <<mountSt, repoInit, cli, cfg, repoExists, stage, cur, failed, outcomes, term,
                   spawned, initTest, exitCode>>
    /\ UNCHANGED uiVars

\* anyhow::bail!("pipeline aborted: ...")
Bail ==
    /\ pc = "bail"
    /\ result' = [ret |-> TRUE, ok |-> FALSE, msg |-> BailMsg(stage)]
    /\ pc' = "run_returned"
    /\ UNCHANGED <<mountSt, repoInit, cli, cfg, repoExists, stage, cur, failed, outcomes, term,
                   spawned, initTest, exitCode>>
    /\ UNCHANGED uiVars

\* Variant of InitTest: the test is inverted.
InitTest_Inverted ==
    /\ pc = "init_test"
    /\ initTest' = IF repoExists THEN "exists" ELSE "absent"
    /\ IF repoExists
         THEN pc' = "exec" /\ stage' = "mkdir"
         ELSE pc' = "check_test" /\ stage' = "none"
    /\ UNCHANGED <<mountSt, repoInit, cli, cfg, repoExists, cur, failed, outcomes, term, spawned,
                   result, exitCode>>
    /\ UNCHANGED uiVars

\* 2. if !Path::new(&cfg.repo.path).exists() { ... }
InitTest ==
    /\ pc = "init_test"
    /\ initTest' = IF repoExists THEN "exists" ELSE "absent"
    /\ IF ~repoExists
         THEN pc' = "exec" /\ stage' = "mkdir"
         ELSE pc' = "check_test" /\ stage' = "none"
    /\ UNCHANGED <<mountSt, repoInit, cli, cfg, repoExists, cur, failed, outcomes, term, spawned,
                   result, exitCode>>
    /\ UNCHANGED uiVars

\* Variant of CheckTest: the flag is not looked at.
CheckTest_IgnoresFlag ==
    /\ pc = "check_test"
    /\ pc' = "exec"
    /\ stage' = "check"
    /\ UNCHANGED <<mountSt, repoInit, cli, cfg, repoExists, cur, failed, outcomes, term, spawned,
                   initTest, result, exitCode>>
    /\ UNCHANGED uiVars

\* Variant of CheckTest: the Backup stage sits inside the no_check block.
CheckTest_BackupInsideCheck ==
    /\ pc = "check_test"
    /\ IF ~cli.no_check
         THEN pc' = "exec" /\ stage' = "check"
         ELSE pc' = "prune_test" /\ stage' = "none"
    /\ UNCHANGED <<mountSt, repoInit, cli, cfg, repoExists, cur, failed, outcomes, term, spawned,
                   initTest, result, exitCode>>
    /\ UNCHANGED uiVars

\* 3. if !cli.no_check { ... }
CheckTest ==
    /\ pc = "check_test"
    /\ pc' = "exec"
    /\ stage' = IF ~cli.no_check THEN "check" ELSE "backup"
    /\ UNCHANGED <<mountSt, repoInit, cli, cfg, repoExists, cur, failed, outcomes, term, spawned,
                   initTest, result, exitCode>>
    /\ UNCHANGED uiVars

\* Variant of PruneTest: the flag is not looked at.
PruneTest_IgnoresFlag ==
    /\ pc = "prune_test"
    /\ pc' = "exec"
    /\ stage' = "forget"
    /\ UNCHANGED <<mountSt, repoInit, cli, cfg, repoExists, cur, failed, outcomes, term, spawned,
                   initTest, result, exitCode>>
    /\ UNCHANGED uiVars

\* 5 & 6. if !cli.no_prune { ... }
PruneTest ==
    /\ pc = "prune_test"
    /\ IF ~cli.no_prune
         THEN pc' = "exec" /\ stage' = "forget"
         ELSE pc' = "final_summary" /\ stage' = "none"
    /\ UNCHANGED <<mountSt, repoInit, cli, cfg, repoExists, cur, failed, outcomes, term, spawned,
                   initTest, result, exitCode>>
    /\ UNCHANGED uiVars

\* print_summary(&outcomes); at the end of run()
FinalSummary ==
    /\ pc = "final_summary"
    /\ term' = term \o print_summary(outcomes)
    /\ pc' = "return_ok"
    /\ UNCHANGED <<mountSt, repoInit, cli, cfg, repoExists, stage, cur, failed, outcomes, spawned,
                   initTest, result, exitCode>>
    /\ UNCHANGED uiVars

\* Ok(())
ReturnOk ==
    /\ pc = "return_ok"
    /\ result' = [ret |-> TRUE, ok |-> TRUE, msg |-> ""]
    /\ pc' = "run_returned"
    /\ UNCHANGED <<mountSt, repoInit, cli, cfg, repoExists, stage, cur, failed, outcomes, term,
                   spawned, initTest, exitCode>>
    /\ UNCHANGED uiVars

\* main: commands::run::run(&cli, &cfg)?; Ok(())  -- the process exit status
MainReturn ==
    /\ pc = "run_returned"
    /\ exitCode' = IF result.ok THEN 0 ELSE 1
    /\ pc' = "exit"
    /\ UNCHANGED <<mountSt, repoInit, cli, cfg, repoExists, stage, cur, failed, outcomes, term,
                   spawned, initTest, result>>
    /\ UNCHANGED uiVars

Next ==
    \/ MainConfigError
    \/ MainPrintConfig
    \/ RunEnter
    \/ MountExec
    \/ RunStage
    \/ RunCaptured
    \/ FinishAndClear
    \/ RunStageReturn
    \/ StagePrint
    \/ StagePush
    \/ StageDecide
    \/ AbortSummary
    \/ Bail
    \/ InitTest
    \/ CheckTest
    \/ PruneTest
    \/ FinalSummary
    \/ ReturnOk
    \/ MainReturn

Spec == Init /\ [][Next]_vars

\* The process is terminated by a signal (no handler is installed, so the
\* default action applies): it stops where it is, main never returns an
\* exit status, and nothing more is written or recorded.
Interrupt ==
    /\ pc \notin {"exit", "killed"}
    /\ pc' = "killed"
    /\ UNCHANGED <<mountSt, repoInit, cli, cfg, repoExists, stage, cur, failed, outcomes, term,
                   spawned, initTest, result, exitCode>>
    /\ UNCHANGED uiVars

NextInt == Next \/ Interrupt

\* The pipeline, with termination by a signal possible at every point.
SpecInt == Init /\ [][NextInt]_vars

\* The pipeline with every step of the (single) thread eventually taken: a
\* launched subprocess eventually exits, and nothing else is waited for.
SpecLive == Spec /\ WF_vars(Next)

\* The program is invoked again after it has exited: a new process with its
\* own command line and the same configuration file, on the filesystem the
\* earlier runs left behind.
Rerun ==
    /\ pc = "exit"
    /\ cli' \in Clis
    /\ pc' = "main"
    /\ stage' = "none"
    /\ cur' = None
    /\ failed' = FALSE
    /\ outcomes' = <<>>
    /\ term' = <<>>
    /\ spawned' = <<>>
    /\ initTest' = "none"
    /\ result' = [ret |-> FALSE, ok |-> FALSE, msg |-> ""]
    /\ exitCode' = -1
    /\ spinner' = None
    /\ rsLabel' = None
    /\ rsArgs' = <<>>
    /\ rsResult' = NoResult
    /\ osAnswer' = NoResult
    /\ mountSt' = NoResult
    /\ UNCHANGED <<cfg, repoExists, repoInit>>

NextRuns == Next \/ Rerun

\* Successive runs of the pipeline on one filesystem.
SpecRuns == Init /\ [][NextRuns]_vars

TypeOK ==
    /\ pc \in {"main", "exec", "rs_run", "rs_clear", "rs_match", "print",
               "push", "decide", "abort_summary",
               "bail", "init_test", "check_test", "prune_test",
               "final_summary", "return_ok", "run_returned", "exit",
               "ui_idle", "ui_done", "args_idle", "args_built", "killed",
               "mount_idle"}
    /\ stage \in RunStages \cup {"Mount", "none", "prefix", "rustic_base"}
    /\ failed \in BOOLEAN
    /\ exitCode \in {-1, 0, 1}

----------------------------------------------------------------------------
(* ui.rs called directly, as its unit tests do: run_stage, skipped_stage   *)
(* and StageOutcome literals with arbitrary inputs, each outcome printed   *)
(* and collected, and print_summary over the collected list.               *)

\* Number of outcomes collected before print_summary is called.
MaxOutcomes == 2

UiLabels == {"Check", "Backup"}

\* Argument vectors: the empty one, `true`, and a shell command.
UiArgs == { <<>>, <<"true">>, <<"sh", "-c", "exit 1">> }

\* Captured texts, the two streams told apart by their lines.
UiText(name) == [i \in 1..MaxLines |-> name \o " line " \o to_string(i)]

\* The answers of the operating system, the two streams independent.
UiExecResults ==
    { [spawn |-> FALSE, ok |-> FALSE, stdout |-> <<>>, stderr |-> <<>>] }
    \cup { [spawn |-> TRUE, ok |-> b, stdout |-> so, stderr |-> se] :
             b \in BOOLEAN, so \in {<<>>, UiText("out")},
             se \in {<<>>, UiText("err")} }

\* StageOutcome { .. } literals: every combination of the public fields.
UiOutcomes ==
    [label : UiLabels, success : BOOLEAN, stdout : {<<>>, UiText("out")},
     stderr : {<<>>, UiText("err")}, error : {None, "oh no"}]

InitUi ==
    /\ cli = [no_mount |-> FALSE, no_prune |-> FALSE, no_check |-> FALSE,
              sudo |-> FALSE, print_config |-> FALSE]
    /\ cfg = Config(None)
    /\ repoExists = TRUE
    /\ pc = "ui_idle"
    /\ stage = "none"
    /\ cur = None
    /\ failed = FALSE
    /\ outcomes = <<>>
    /\ term = <<>>
    /\ spawned = <<>>
    /\ initTest = "none"
    /\ result = [ret |-> FALSE, ok |-> FALSE, msg |-> ""]
    /\ exitCode = -1
    /\ spinner = None
    /\ rsLabel = None
    /\ rsArgs = <<>>
    /\ rsResult = NoResult
    /\ osAnswer = NoResult
    /\ mountSt = NoResult
    /\ repoInit = repoExists

\* let o = run_stage(label, &args); -- the call and make_spinner(label)
UiCallRunStage ==
    /\ pc = "ui_idle"
    /\ Len(outcomes) < MaxOutcomes
    /\ \E l \in UiLabels, a \in UiArgs :
         /\ rsLabel' = l
         /\ rsArgs' = a
         /\ spinner' = l
    /\ rsResult' = NoResult
    /\ osAnswer' = NoResult
    /\ pc' = "rs_run"
    /\ UNCHANGED <<mountSt, repoInit, cli, cfg, repoExists, stage, cur, failed, outcomes, term,
                   spawned, initTest, result, exitCode>>

UiRunCaptured == RunCapturedWith(UiExecResults)

\* let o = skipped_stage(label);
UiCallSkipped ==
    /\ pc = "ui_idle"
    /\ Len(outcomes) < MaxOutcomes
    /\ \E l \in UiLabels : cur' = skipped_stage(l)
    /\ rsResult' = NoResult
    /\ osAnswer' = NoResult
    /\ pc' = "print"
    /\ UNCHANGED <<mountSt, repoInit, cli, cfg, repoExists, stage, failed, outcomes, term,
                   spawned, initTest, result, exitCode, spinner, rsLabel,
                   rsArgs>>

\* let o = StageOutcome { label, success, stdout, stderr, error };
UiLiteral ==
    /\ pc = "ui_idle"
    /\ Len(outcomes) < MaxOutcomes
    /\ cur' \in UiOutcomes
    /\ rsResult' = NoResult
    /\ osAnswer' = NoResult
    /\ pc' = "print"
    /\ UNCHANGED <<mountSt, repoInit, cli, cfg, repoExists, stage, failed, outcomes, term,
                   spawned, initTest, result, exitCode, spinner, rsLabel,
                   rsArgs>>

\* The outcome was printed and pushed: back to the caller.
UiContinue ==
    /\ pc = "decide"
    /\ pc' = "ui_idle"
    /\ UNCHANGED <<mountSt, repoInit, cli, cfg, repoExists, stage, cur, failed, outcomes, term,
                   spawned, initTest, result, exitCode>>
    /\ UNCHANGED uiVars

\* print_summary(&outcomes);
UiSummary ==
    /\ pc = "ui_idle"
    /\ term' = term \o print_summary(outcomes)
    /\ pc' = "ui_done"
    /\ UNCHANGED <<mountSt, repoInit, cli, cfg, repoExists, stage, cur, failed, outcomes,
                   spawned, initTest, result, exitCode>>
    /\ UNCHANGED uiVars

NextUi ==
    \/ UiCallRunStage
    \/ UiRunCaptured
    \/ FinishAndClear
    \/ RunStageReturn
    \/ UiCallSkipped
    \/ UiLiteral
    \/ StagePrint
    \/ StagePush
    \/ UiContinue
    \/ UiSummary

SpecUi == InitUi /\ [][NextUi]_vars

----------------------------------------------------------------------------
(* runner.rs and commands/run.rs called directly, as their unit tests do:  *)
(* prefix, rustic_base and the six builders applied to a command line and  *)
(* a configuration.                                                        *)

\* Longest glob list and longest source list of a configuration.
MaxGlobs == 2
MaxSources == 2

SeqsUpTo(S, n) == UNION { [1..k -> S] : k \in 0..n }

\* Configured strings: plain ones, and ones with blanks and shell
\* metacharacters.
RepoPaths == { "/tmp/repo", "/mnt/my nas/repo" }
Passwords == { "", "p@ss w0rd; $HOME" }
Markers == { "ignore", ".no backup" }
GlobPatterns == { "!**/.git", "!tmp/" }
SourcePaths == { "/a", "/b c", "." }
Retentions == { [daily |-> 2, weekly |-> 1, monthly |-> 1],
                [daily |-> 7, weekly |-> 4, monthly |-> 12] }
Compressions == { 3, 19 }

ArgsConfigs ==
    [repo      : [path : RepoPaths, password : Passwords],
     backup    : [sources : SeqsUpTo(SourcePaths, MaxSources),
                  compression : Compressions,
                  globs : SeqsUpTo(GlobPatterns, MaxGlobs),
                  exclude_if_present : Markers],
     retention : Retentions,
     mount     : {[share |-> None, user |-> None]}]

\* make_cli(&[]), make_cli(&["--sudo"]), and the same with one of the skip
\* flags.
ArgsClis ==
    { c \in Clis :
        /\ ~c.print_config
        /\ Cardinality({ f \in {"no_mount", "no_check", "no_prune"} : c[f] }) <= 1 }

InitArgs ==
    /\ cli \in ArgsClis
    /\ cfg \in ArgsConfigs
    /\ repoExists = TRUE
    /\ pc = "args_idle"
    /\ stage = "none"
    /\ cur = None
    /\ failed = FALSE
    /\ outcomes = <<>>
    /\ term = <<>>
    /\ spawned = <<>>
    /\ initTest = "none"
    /\ result = [ret |-> FALSE, ok |-> FALSE, msg |-> ""]
    /\ exitCode = -1
    /\ spinner = None
    /\ rsLabel = None
    /\ rsArgs = <<>>
    /\ rsResult = NoResult
    /\ osAnswer = NoResult
    /\ mountSt = NoResult
    /\ repoInit = repoExists

\* let args = build_x_args(&cli, &cfg);  -- `stage` names the builder called
ArgsCallBuilder ==
    /\ pc = "args_idle"
    /\ \E s \in RunStages :
         /\ stage' = s
         /\ rsArgs' = Args(s, cli, cfg)
    /\ pc' = "args_built"
    /\ UNCHANGED <<mountSt, repoInit, cli, cfg, repoExists, cur, failed, outcomes, term, spawned,
                   initTest, result, exitCode, spinner, rsLabel, rsResult,
                   osAnswer>>

\* let p = prefix(&cli);
ArgsCallPrefix ==
    /\ pc = "args_idle"
    /\ stage' = "prefix"
    /\ rsArgs' = prefix(cli)
    /\ pc' = "args_built"
    /\ UNCHANGED <<mountSt, repoInit, cli, cfg, repoExists, cur, failed, outcomes, term, spawned,
                   initTest, result, exitCode, spinner, rsLabel, rsResult,
                   osAnswer>>

\* let cmd = rustic_base(&cli, &cfg);
ArgsCallRusticBase ==
    /\ pc = "args_idle"
    /\ stage' = "rustic_base"
    /\ rsArgs' = rustic_base(cli, cfg)
    /\ pc' = "args_built"
    /\ UNCHANGED <<mountSt, repoInit, cli, cfg, repoExists, cur, failed, outcomes, term, spawned,
                   initTest, result, exitCode, spinner, rsLabel, rsResult,
                   osAnswer>>

\* The assertions on the vector are done: the next call.
ArgsAsserted ==
    /\ pc = "args_built"
    /\ pc' = "args_idle"
    /\ UNCHANGED <<mountSt, repoInit, cli, cfg, repoExists, stage, cur, failed, outcomes, term,
                   spawned, initTest, result, exitCode>>
    /\ UNCHANGED uiVars

NextArgs ==
    \/ ArgsCallBuilder
    \/ ArgsCallPrefix
    \/ ArgsCallRusticBase
    \/ ArgsAsserted

SpecArgs == InitArgs /\ [][NextArgs]_vars

----------------------------------------------------------------------------
(* mount.rs called directly, as its unit tests do: mount_share applied to  *)
(* a MountConfig, the outcome printed and collected.                       *)

\* MountConfig { share, user } values.
MountConfigs == [share : Shares, user : {None, "alice"}]

InitMount ==
    /\ cli = [no_mount |-> FALSE, no_prune |-> FALSE, no_check |-> FALSE,
              sudo |-> FALSE, print_config |-> FALSE]
    /\ cfg \in { [Config(None) EXCEPT !.mount = m] : m \in MountConfigs }
    /\ repoExists = TRUE
    /\ pc = "mount_idle"
    /\ stage = "none"
    /\ cur = None
    /\ failed = FALSE
    /\ outcomes = <<>>
    /\ term = <<>>
    /\ spawned = <<>>
    /\ initTest = "none"
    /\ result = [ret |-> FALSE, ok |-> FALSE, msg |-> ""]
    /\ exitCode = -1
    /\ spinner = None
    /\ rsLabel = None
    /\ rsArgs = <<>>
    /\ rsResult = NoResult
    /\ osAnswer = NoResult
    /\ mountSt = NoResult
    /\ repoInit = repoExists

\* let outcome = mount_share(&cfg);
MountCall ==
    /\ pc = "mount_idle"
    /\ Len(outcomes) < MaxOutcomes
    /\ \E e \in MountEnvs :
         /\ cur' = mount_share(cfg.mount, e)
         /\ spawned' = spawned \o try_mount(cfg.mount, e).launched
         /\ mountSt' = [wasMounted |-> e.isMounted,
                        mkdir |-> try_mount(cfg.mount, e).mkdir]
    /\ stage' = "Mount"
    /\ pc' = "print"
    /\ UNCHANGED <<repoInit, cli, cfg, repoExists, failed, outcomes, term, initTest,
                   result, exitCode>>
    /\ UNCHANGED uiVars

\* The outcome was printed and pushed: back to the caller.
MountContinue ==
    /\ pc = "decide"
    /\ pc' = "mount_idle"
    /\ UNCHANGED <<mountSt, repoInit, cli, cfg, repoExists, stage, cur, failed, outcomes, term,
                   spawned, initTest, result, exitCode>>
    /\ UNCHANGED uiVars

NextMount ==
    \/ MountCall
    \/ StagePrint
    \/ StagePush
    \/ MountContinue

SpecMount == InitMount /\ [][NextMount]_vars

----------------------------------------------------------------------------
(* Vocabulary of the properties                                            *)

Last(sq) == sq[Len(sq)]

IsSuffix(suf, sq) ==
    /\ Len(suf) <= Len(sq)
    /\ SubSeq(sq, Len(sq) - Len(suf) + 1, Len(sq)) = suf

\* run() has returned to main.
Returned == result.ret

\* The label under which a stage is recorded.
StageLabel(s) == IF s = "Mount" THEN "Mount" ELSE Label(s)

\* Positions of the outcome list holding an outcome labelled l.
Recorded(l) == { i \in 1..Len(outcomes) : outcomes[i].label = l }

RecordedOk(l) == \E i \in Recorded(l) : outcomes[i].success

RecordedFailed(l) == \E i \in Recorded(l) : ~outcomes[i].success

\* Positions of the launch list at which run_stage launched stage s.
Ran(s) == { i \in 1..Len(spawned) :
              spawned[i].spinner /\ spawned[i].args = Args(s, cli, cfg) }

\* mount_share was attempted: its first step is the launch of `doas mount`.
MountAttempted ==
    \E i \in 1..Len(spawned) :
        ~spawned[i].spinner /\ spawned[i].args = <<"doas", "mount">>

\* Number of summaries (banners) on the terminal.
SummaryCount ==
    Cardinality({ i \in 1..Len(term) :
                    term[i].kind \in {"banner_ok", "banner_fail"} })

----------------------------------------------------------------------------
(* Properties                                                              *)

C2_OkIffAllSucceeded ==
    Returned =>
        /\ result.ok <=> (\A i \in 1..Len(outcomes) : outcomes[i].success)
        /\ ~result.ok <=> (\E i \in 1..Len(outcomes) : ~outcomes[i].success)
        /\ pc = "exit" => (exitCode = 0 <=> result.ok)
        /\ pc = "exit" => (exitCode # 0 <=> ~result.ok)

C2_Witness ==
    /\ pc = "exit"
    /\ Returned
    /\ exitCode = 1
    /\ RecordedFailed("Compact")

\* C3: on every path through run() the summary is printed exactly once, over
\* the outcome list as recorded, after the last executed stage's outcome was
\* rendered and recorded and before run() returns: nothing is printed, run
\* or recorded after it.
C3_SummaryExactlyOnce ==
    /\ SummaryCount <= 1
    /\ Returned => SummaryCount = 1
    /\ SummaryCount = 1 =>
          /\ pc \in {"bail", "return_ok", "run_returned", "exit"}
          /\ IsSuffix(print_summary(outcomes), term)
          /\ Len(outcomes) >= 1
          /\ IsSuffix(print(Last(outcomes)) \o print_summary(outcomes), term)
    /\ pc \in {"bail", "return_ok"} => SummaryCount = 1 /\ ~Returned

C3_Witness ==
    /\ Returned
    /\ ~result.ok
    /\ SummaryCount = 1
    /\ Len(outcomes) >= 2

\* C4: when the abort decision of a stage is evaluated, the outcome of that
\* stage has already been rendered and then appended to the outcome list;
\* a failed stage's outcome is printed and is in the list the summary is
\* printed over.
C4_RenderedAndRecordedBeforeDecision ==
    /\ pc = "push" =>
          /\ cur.label = StageLabel(stage)
          /\ IsSuffix(print(cur), term)
          /\ Recorded(cur.label) = {}
    /\ pc \in {"decide", "abort_summary"} =>
          /\ Len(outcomes) >= 1
          /\ Last(outcomes).label = StageLabel(stage)
          /\ failed = ~Last(outcomes).success
          /\ IsSuffix(print(Last(outcomes)), term)
    /\ pc = "abort_summary" => ~Last(outcomes).success
    /\ pc = "bail" =>
          /\ Len(outcomes) >= 1
          /\ ~Last(outcomes).success
          /\ Last(outcomes).label = StageLabel(stage)
          /\ IsSuffix(print(Last(outcomes)) \o print_summary(outcomes), term)
          /\ \E i \in 1..Len(term) :
                term[i].kind = "failed_label" /\ term[i].text = StageLabel(stage)

C4_Witness ==
    /\ pc = "abort_summary"
    /\ stage = "check"
    /\ ~Last(outcomes).success

\* C5: mount_share is attempted exactly when no_mount is false and a share
\* is configured; otherwise the Mount outcome is the synthetic successful
\* skip.  Either way exactly one outcome labelled "Mount" is recorded and it
\* is the first element of the outcome list of every run.
C5_MountAttemptedIffEnabled ==
    LET enabled == ~cli.no_mount /\ cfg.mount.share # None
        done    == pc # "main" /\ ~(pc = "exec" /\ stage = "Mount")
                   /\ ~(pc = "exit" /\ ~Returned)
    IN  /\ MountAttempted => enabled
        /\ done /\ enabled => MountAttempted
        /\ pc \in {"print", "push"} /\ stage = "Mount" =>
              /\ cur.label = "Mount"
              /\ ~enabled => cur = skipped_stage("Mount")
        /\ Len(outcomes) >= 1 =>
              /\ Recorded("Mount") = {1}
              /\ ~enabled => outcomes[1] = skipped_stage("Mount")
        /\ Returned => Len(outcomes) >= 1

C5_Witness ==
    /\ Returned
    /\ MountAttempted
    /\ outcomes[1].success
    /\ Len(outcomes) >= 2

LabelsOf(os) == [i \in 1..Len(os) |-> os[i].label]

AllSucceeded == \A i \in 1..Len(outcomes) : outcomes[i].success

\* C11: when run() has returned and every executed stage succeeded, the
\* outcome list is exactly Mount, the Init pair (iff the repository path did
\* not exist), Check (iff not no_check), Backup, Forget and Compact (iff not
\* no_prune), in this order, and run() returned Ok; with no_mount, a fresh
\* repository path and no other flag the list is the full list of seven,
\* its Mount being the synthetic skip.
C11_SuccessfulRunListsEnabledStages ==
    (Returned /\ AllSucceeded) =>
        /\ LabelsOf(outcomes) =
              <<"Mount">>
              \o (IF initTest = "absent"
                    THEN <<"Init (mkdir)", "Init (repo)">> ELSE <<>>)
              \o (IF ~cli.no_check THEN <<"Check">> ELSE <<>>)
              \o <<"Backup">>
              \o (IF ~cli.no_prune THEN <<"Forget", "Compact">> ELSE <<>>)
        /\ result.ok
        /\ pc = "exit" => exitCode = 0
        /\ (cli.no_mount /\ initTest = "absent" /\ ~cli.no_check
              /\ ~cli.no_prune) =>
              /\ Len(outcomes) = 7
              /\ outcomes[1].stdout = <<>> /\ outcomes[1].error = None

C11_Witness ==
    /\ pc = "exit"
    /\ Returned /\ AllSucceeded
    /\ cli.no_mount /\ ~cli.no_check /\ ~cli.no_prune
    /\ initTest = "absent"
    /\ Len(outcomes) = 7

\* C12: (doc comment of run()) every stage always runs, so that when run()
\* has returned the outcome list, over which the summary is printed, holds a
\* result for every stage the flags enable; and a failing run returns its
\* error only after the summary was printed.
C12_EveryStageAlwaysRuns ==
    Returned =>
        /\ Recorded("Mount") # {}
        /\ initTest = "absent" =>
              Recorded("Init (mkdir)") # {} /\ Recorded("Init (repo)") # {}
        /\ ~cli.no_check => Recorded("Check") # {} /\ Ran("check") # {}
        /\ Recorded("Backup") # {} /\ Ran("backup") # {}
        /\ ~cli.no_prune =>
              /\ Recorded("Forget") # {} /\ Ran("forget") # {}
              /\ Recorded("Compact") # {} /\ Ran("compact") # {}
        /\ ~result.ok => SummaryCount = 1

\* Some line of the given kind and text is on the terminal.
OnTerm(kind, text) ==
    \E i \in 1..Len(term) : term[i].kind = kind /\ term[i].text = text

\* C13: a failed Compact fails the run although every earlier stage
\* succeeded: its outcome is rendered and is the last of the list, the
\* summary printed is the failure banner listing Compact, run() returns Err
\* and the process exits non-zero.
C13_FailedCompactFailsRun ==
    RecordedFailed("Compact") =>
        /\ Last(outcomes).label = "Compact"
        /\ \A i \in 1..(Len(outcomes) - 1) : outcomes[i].success
        /\ RecordedOk("Mount") /\ RecordedOk("Backup") /\ RecordedOk("Forget")
        /\ OnTerm("status_err", "Compact")
        /\ pc \in {"decide", "abort_summary", "bail", "run_returned", "exit"}
        /\ pc \in {"bail", "run_returned", "exit"} =>
              /\ OnTerm("banner_fail", "Backup failed.")
              /\ OnTerm("failed_label", "Compact")
              /\ SummaryCount = 1
        /\ pc \in {"run_returned", "exit"} =>
              /\ Returned
              /\ ~result.ok
              /\ result.msg = "pipeline aborted: compact failed"
        /\ pc = "exit" => exitCode # 0

C13_Witness ==
    /\ pc = "exit"
    /\ RecordedFailed("Compact")
    /\ Len(outcomes) = 7
    /\ exitCode # 0

\* The invariant of a StageOutcome.
WellFormed(o) ==
    /\ o.error # None => ~o.success
    /\ o.success => o.error = None

\* C14: every outcome a constructor of the program (run_stage,
\* skipped_stage, mount_share) hands to run(), and every outcome of the
\* outcome list, satisfies: an error is present only if success is false,
\* and success is true only if no error is present.
C14_ErrorImpliesFailure ==
    /\ \A i \in 1..Len(outcomes) : WellFormed(outcomes[i])
    /\ pc \in {"print", "push"} => WellFormed(cur)

C14_Witness ==
    /\ Returned
    /\ MountAttempted
    /\ outcomes[1].success /\ outcomes[1].stdout # <<>>
    /\ Len(outcomes) >= 3
    /\ ~Last(outcomes).success /\ Last(outcomes).error # None

\* The fields of a synthetic skip labelled l.
IsSkipOutcome(o, l) ==
    /\ o.label = l
    /\ o.success
    /\ o.stdout = <<>>
    /\ o.stderr = <<>>
    /\ o.error = None

\* C15: skipped_stage(label) launches no process and returns, for every
\* label, an outcome with that label, success = true, empty stdout, empty
\* stderr and no error; the skipped Mount stage of a run therefore never
\* takes the abort branch and is never listed in the failure summary.
C15_SkippedStageIsSuccess ==
    LET skipped == cli.no_mount \/ cfg.mount.share = None
    IN  /\ \A l \in {"Mount"} \cup { Label(st) : st \in RunStages } :
              IsSkipOutcome(skipped_stage(l), l)
        /\ (skipped /\ stage = "Mount" /\ pc \in {"print", "push"}) =>
              /\ IsSkipOutcome(cur, "Mount")
              /\ spawned = <<>>
        /\ (skipped /\ Len(outcomes) >= 1) =>
              /\ IsSkipOutcome(outcomes[1], "Mount")
              /\ \A i \in 1..Len(spawned) : spawned[i].spinner
              /\ ~(stage = "Mount" /\ pc \in {"abort_summary", "bail"})
              /\ ~OnTerm("status_err", "Mount")
              /\ ~OnTerm("failed_label", "Mount")
              /\ Returned => result.msg # BailMsg("Mount")

C15_Witness ==
    /\ Returned
    /\ ~result.ok
    /\ cli.no_mount /\ cfg.mount.share # None
    /\ IsSkipOutcome(outcomes[1], "Mount")
    /\ OnTerm("banner_fail", "Backup failed.")

\* run_stage has just returned `cur` to its caller.
RunStageReturned == pc = "print" /\ rsResult # NoResult

\* C16: the outcome run_stage(label, args) returns carries the given label
\* and is determined by what the executor returned: an executor error gives
\* success = false, empty stdout and stderr and the executor's message as
\* error; exit_success = false gives success = false, the captured stdout
\* and stderr and an error "command exited non-zero: " followed by the
\* arguments joined by spaces; exit_success = true gives success = true, the
\* captured stdout and stderr and no error.
C16_RunStageOutcome ==
    RunStageReturned =>
        /\ cur.label = rsLabel
        /\ ~rsResult.isOk =>
              /\ ~cur.success
              /\ cur.stdout = <<>> /\ cur.stderr = <<>>
              /\ cur.error = rsResult.err
        /\ (rsResult.isOk /\ ~rsResult.success) =>
              /\ ~cur.success
              /\ cur.stdout = osAnswer.stdout /\ cur.stderr = osAnswer.stderr
              /\ cur.error = "command exited non-zero: " \o join(rsArgs)
              /\ rsArgs = <<"sh", "-c", "exit 1">> =>
                    cur.error = "command exited non-zero: sh -c exit 1"
              /\ rsArgs = <<"true">> =>
                    cur.error = "command exited non-zero: true"
        /\ (rsResult.isOk /\ rsResult.success) =>
              /\ cur.success
              /\ cur.stdout = osAnswer.stdout /\ cur.stderr = osAnswer.stderr
              /\ cur.error = None

C16_Witness ==
    /\ RunStageReturned
    /\ rsArgs = <<"sh", "-c", "exit 1">>
    /\ rsResult.isOk /\ ~rsResult.success
    /\ ~cur.success
    /\ cur.stdout # <<>> /\ cur.stderr = <<>>

\* C17: every call of run_captured has one of three kinds of result.  With
\* an empty argument vector it returns an error and launches nothing.  When
\* the process cannot be spawned it returns an error.  When the process ran
\* and exited non-zero it returns Ok with exit_success = false and the
\* captured stdout and stderr, never an error.
C17_RunCapturedResults ==
    [][ pc = "rs_run" =>
          /\ rsArgs = <<>> =>
                /\ ~rsResult'.isOk
                /\ spawned' = spawned
          /\ rsArgs # <<>> =>
                /\ Len(spawned') = Len(spawned) + 1
                /\ Last(spawned').args = rsArgs
                /\ Last(spawned').started = osAnswer'.spawn
                /\ ~osAnswer'.spawn => ~rsResult'.isOk
                /\ (osAnswer'.spawn /\ ~osAnswer'.ok) =>
                      /\ rsResult'.isOk
                      /\ ~rsResult'.success
                      /\ rsResult'.stdout = osAnswer'.stdout
                      /\ rsResult'.stderr = osAnswer'.stderr
                /\ (osAnswer'.spawn /\ osAnswer'.ok) =>
                      rsResult'.isOk /\ rsResult'.success
      ]_vars

C17_Witness ==
    /\ pc = "rs_clear"
    /\ rsArgs # <<>>
    /\ osAnswer.spawn /\ ~osAnswer.ok
    /\ rsResult.isOk /\ ~rsResult.success
    /\ rsResult.stdout # <<>> /\ rsResult.stderr # <<>>

\* C18: in run_stage the busy-indicator is active when the subprocess is
\* launched, and it is stopped on every result path (success, non-zero
\* exit, spawn error, empty command) before the outcome is built and
\* returned; so it is never active when run_stage has returned, and nothing
\* is written to the terminal while it is active.
C18_SpinnerStoppedBeforeOutput ==
    [][ /\ spinner # None => pc \in {"rs_run", "rs_clear"}
        /\ spinner' # None => pc' \in {"rs_run", "rs_clear"}
        /\ pc = "rs_run" => spinner = rsLabel
        /\ (pc = "rs_run" /\ spawned' # spawned) => Last(spawned').spinner
        /\ pc' \in {"rs_match", "print"} => spinner' = None
        /\ term' # term => spinner = None /\ spinner' = None
      ]_vars

C18_Witness ==
    /\ RunStageReturned
    /\ rsArgs = <<>>
    /\ ~cur.success
    /\ spinner = None

\* C19: every subprocess a pipeline stage launches, those of the Mount
\* stage included, runs while a spinner is active and with its stdout and
\* stderr captured rather than inherited from the terminal.
C19_EveryLaunchBehindSpinnerCaptured ==
    \A i \in 1..Len(spawned) :
        /\ spawned[i].spinner
        /\ spawned[i].captured

\* Positions of a printed block holding a line of the given kind and text.
At(block, kind, text) ==
    { i \in 1..Len(block) : block[i].kind = kind /\ block[i].text = text }

OfKind(block, kind) == { i \in 1..Len(block) : block[i].kind = kind }

\* The block replays `text` line by line right after its header `hdr`, and
\* has no such header when the text is empty.
ReplaysAfter(block, hdr, text) ==
    IF text = <<>> THEN At(block, "hdr", hdr) = {}
    ELSE /\ Cardinality(At(block, "hdr", hdr)) = 1
         /\ LET h == CHOOSE i \in At(block, "hdr", hdr) : TRUE
            IN  /\ h + Len(text) <= Len(block)
                /\ \A k \in 1..Len(text) :
                      block[h + k] = Line("err", "line", text[k])

\* What StageOutcome::print has to write for the outcome o.
PrintedAsClaimed(o, block) ==
    IF o.success
      THEN block = << Line("out", "status_ok", o.label) >>
      ELSE /\ Len(block) >= 1
           /\ block[1] = Line("out", "status_err", o.label)
           /\ \A i \in 2..Len(block) :
                 /\ block[i].stream = "err"
                 /\ block[i].kind \in {"blank", "error", "hdr", "line"}
           /\ IF o.error = None THEN OfKind(block, "error") = {}
              ELSE /\ OfKind(block, "error") = At(block, "error", o.error)
                   /\ Cardinality(OfKind(block, "error")) = 1
           /\ ReplaysAfter(block, "stdout:", o.stdout)
           /\ ReplaysAfter(block, "stderr:", o.stderr)
           /\ Cardinality(OfKind(block, "line")) = Len(o.stdout) + Len(o.stderr)
           /\ Cardinality(OfKind(block, "hdr")) =
                 (IF o.stdout = <<>> THEN 0 ELSE 1)
                 + (IF o.stderr = <<>> THEN 0 ELSE 1)
           /\ \A e \in OfKind(block, "error"), h \in OfKind(block, "hdr") : e < h
           /\ \A e \in OfKind(block, "error"), l \in OfKind(block, "line") : e < l
           /\ \A h1 \in At(block, "hdr", "stdout:"),
                 h2 \in At(block, "hdr", "stderr:") : h1 + Len(o.stdout) < h2

\* C20: StageOutcome::print writes for a successful outcome exactly one
\* status line, whatever its captured stdout and stderr; for a failed
\* outcome it writes the status line, then the error message if there is
\* one, then the captured stdout line by line if it is not empty, then the
\* captured stderr line by line if it is not empty, in this order.
C20_PrintOrder ==
    [][ pc = "print" =>
          /\ Len(term') >= Len(term)
          /\ SubSeq(term', 1, Len(term)) = term
          /\ PrintedAsClaimed(cur, SubSeq(term', Len(term) + 1, Len(term')))
      ]_vars

C20_Witness ==
    /\ pc = "push"
    /\ ~cur.success
    /\ cur.error # None
    /\ cur.stdout # <<>> /\ cur.stderr # <<>>
    /\ IsSuffix(<<Line("err", "line", Last(cur.stderr))>>, term)

IsFailedLabelLine(l) == l.kind = "failed_label"

IsFailedOutcome(o) == ~o.success

\* What print_summary has to write for the outcome list os.
SummaryAsClaimed(os, block) ==
    LET listed == SelectSeq(block, IsFailedLabelLine)
        fails  == SelectSeq(os, IsFailedOutcome)
    IN  /\ (OfKind(block, "banner_ok") # {}) <=> (fails = <<>>)
        /\ Cardinality(OfKind(block, "banner_ok"))
             + Cardinality(OfKind(block, "banner_fail")) = 1
        /\ Len(listed) = Len(fails)
        /\ \A k \in 1..Len(fails) : listed[k].text = fails[k].label
        /\ \A b \in OfKind(block, "banner_fail"),
              l \in OfKind(block, "failed_label") : b < l

\* C21: print_summary prints the success banner exactly when no outcome of
\* the list failed; otherwise it prints the failure banner and after it the
\* label of every failed outcome, of no successful one, in list order.
C21_SummaryListsFailures ==
    [][ (pc \in {"ui_idle", "abort_summary", "final_summary"}
         /\ pc' \in {"ui_done", "bail", "return_ok"}) =>
          /\ Len(term') >= Len(term)
          /\ SubSeq(term', 1, Len(term)) = term
          /\ SummaryAsClaimed(outcomes,
                              SubSeq(term', Len(term) + 1, Len(term')))
      ]_vars

C21_Witness ==
    /\ pc = "ui_done"
    /\ Len(outcomes) = 2
    /\ outcomes[1].success /\ ~outcomes[2].success
    /\ IsSuffix(<< Line("err", "banner_fail", "Backup failed."),
                   Line("err", "failed_label", outcomes[2].label),
                   Line("out", "blank", "") >>, term)

\* A builder (or prefix, rustic_base) was called and returned rsArgs.
Built(fn) == pc = "args_built" /\ stage = fn

\* The command line with elevation switched off.
NoSudo == [cli EXCEPT !.sudo = FALSE]

\* C22: for every configuration and each of the six builders, the vector
\* built with elevation enabled is the token "doas" followed by the vector
\* built with elevation disabled (which does not start with "doas");
\* prefix() is empty when elevation is disabled and has exactly one element
\* when it is enabled.
C22_ElevationPrependsOneToken ==
    /\ Built("prefix") => Len(rsArgs) = (IF cli.sudo THEN 1 ELSE 0)
    /\ \A s \in RunStages :
         Built(s) =>
           IF cli.sudo
             THEN /\ rsArgs = <<"doas">> \o Args(s, NoSudo, cfg)
                  /\ Len(rsArgs) = Len(Args(s, NoSudo, cfg)) + 1
             ELSE /\ rsArgs # <<>>
                  /\ Head(rsArgs) \in {"rustic", "mkdir"}

C22_Witness ==
    /\ Built("mkdir")
    /\ cli.sudo
    /\ rsArgs = <<"doas", "mkdir", "-p", "/mnt/my nas/repo">>

\* The decimal numerals of the configured numbers.
Decimal ==
    (1 :> "1") @@ (2 :> "2") @@ (3 :> "3") @@ (4 :> "4") @@ (7 :> "7")
    @@ (12 :> "12") @@ (19 :> "19")

\* P, the privilege prefix, and B, the backup-engine base, as the claim
\* writes them.
ClaimedP == IF cli.sudo THEN <<"doas">> ELSE <<>>

ClaimedB ==
    ClaimedP \o <<"rustic", "-r", cfg.repo.path, "--password", cfg.repo.password>>

\* C23: for every configuration, with P the privilege prefix and
\* B = P ++ [rustic, -r, repo.path, --password, repo.password]:
\* rustic_base = B, build_init_args = B ++ [init], build_check_args =
\* B ++ [check], build_compact_args = B ++ [prune], build_forget_args =
\* B ++ [forget, --prune, --keep-daily, d, --keep-weekly, w, --keep-monthly,
\* m] with d, w, m the configured retention counts, and build_mkdir_args =
\* P ++ [mkdir, -p, repo.path].
C23_BuilderShapes ==
    /\ Built("rustic_base") => rsArgs = ClaimedB
    /\ Built("init") => rsArgs = ClaimedB \o <<"init">>
    /\ Built("check") => rsArgs = ClaimedB \o <<"check">>
    /\ Built("compact") => rsArgs = ClaimedB \o <<"prune">>
    /\ Built("forget") =>
         rsArgs = ClaimedB \o <<"forget", "--prune",
                                "--keep-daily", Decimal[cfg.retention.daily],
                                "--keep-weekly", Decimal[cfg.retention.weekly],
                                "--keep-monthly", Decimal[cfg.retention.monthly]>>
    /\ Built("mkdir") => rsArgs = ClaimedP \o <<"mkdir", "-p", cfg.repo.path>>

C23_Witness ==
    /\ Built("forget")
    /\ rsArgs = <<"doas", "rustic", "-r", "/tmp/repo", "--password", "",
                  "forget", "--prune", "--keep-daily", "7",
                  "--keep-weekly", "4", "--keep-monthly", "12">>

\* Positions of a vector holding the token t.
Where(args, t) == { i \in 1..Len(args) : args[i] = t }

\* The position of the subcommand `backup` in the vector build_backup_args
\* returned: right after the base.
BackupAt == Len(ClaimedB) + 1

\* C24: for every glob list, build_backup_args emits exactly one
\* --glob=<pattern> token per configured glob, in the order of the
\* configured list, all of them after the --set-compression and
\* --exclude-if-present pairs (each flag immediately followed by its value)
\* and before every source path.
C24_GlobsInOrder ==
    Built("backup") =>
      LET globs == cfg.backup.globs
          n     == Len(globs)
          g     == BackupAt + 4     \* the last position before the globs
      IN  /\ Len(rsArgs) > g + n
          /\ rsArgs[BackupAt] = "backup"
          /\ rsArgs[BackupAt + 1] = "--set-compression"
          /\ rsArgs[BackupAt + 2] = Decimal[cfg.backup.compression]
          /\ rsArgs[BackupAt + 3] = "--exclude-if-present"
          /\ rsArgs[BackupAt + 4] = cfg.backup.exclude_if_present
          /\ \A k \in 1..n : rsArgs[g + k] = "--glob=" \o globs[k]
          \* no glob token anywhere else
          /\ \A k \in 1..n : Where(rsArgs, "--glob=" \o globs[k]) \subseteq (g + 1)..(g + n)
          \* what follows the globs are the sources
          /\ \A i \in (g + n + 1)..Len(rsArgs) :
                rsArgs[i] \in {"."} \cup { cfg.backup.sources[j] :
                                            j \in 1..Len(cfg.backup.sources) }

C24_Witness ==
    /\ Built("backup")
    /\ cfg.backup.globs = <<"!tmp/", "!**/.git">>
    /\ cfg.backup.sources = <<"/b c", "/a">>
    /\ SubSeq(rsArgs, BackupAt + 3, Len(rsArgs))
         = <<"--exclude-if-present", cfg.backup.exclude_if_present,
             "--glob=!tmp/", "--glob=!**/.git", "/b c", "/a">>

\* The part of the vector build_backup_args returned that follows the glob
\* tokens.
SourcesPart ==
    SubSeq(rsArgs, BackupAt + 4 + Len(cfg.backup.globs) + 1, Len(rsArgs))

\* C25 as stated: with an empty source list the vector contains the element
\* "."; with a non-empty source list it contains exactly those sources, in
\* original order, and never the element ".".
C25_NeverDotWithSources ==
    Built("backup") =>
      IF cfg.backup.sources = <<>>
        THEN Where(rsArgs, ".") # {}
        ELSE /\ SourcesPart = cfg.backup.sources
             /\ Where(rsArgs, ".") = {}

\* Positions of the vector build_backup_args returned that hold a
\* configured string equal to ".".
ConfiguredDots ==
    LET p == Len(ClaimedP)
        g == BackupAt + 4 + Len(cfg.backup.globs)
    IN  (IF cfg.repo.path = "." THEN {p + 3} ELSE {})
        \cup (IF cfg.repo.password = "." THEN {p + 5} ELSE {})
        \cup (IF cfg.backup.exclude_if_present = "." THEN {BackupAt + 4} ELSE {})
        \cup { g + j : j \in { k \in 1..Len(cfg.backup.sources) :
                                 cfg.backup.sources[k] = "." } }

\* C25, amended: with an empty source list the vector ends with the single
\* source "."; with a non-empty source list its sources are exactly the
\* configured ones, in original order, and it holds the element "." only
\* where a configured string is itself ".".
C25_DotOnlyAsDefaultOrConfigured ==
    Built("backup") =>
      IF cfg.backup.sources = <<>>
        THEN SourcesPart = <<".">>
        ELSE /\ SourcesPart = cfg.backup.sources
             /\ Where(rsArgs, ".") = ConfiguredDots

C25_Witness ==
    /\ Built("backup")
    /\ cfg.backup.sources = <<"/b c", ".">>
    /\ SourcesPart = <<"/b c", ".">>

\* The length of the vector of each function, from the elevation flag and
\* the numbers of globs and sources alone.
ClaimedLen(fn) ==
    LET p == IF cli.sudo THEN 1 ELSE 0
        n == Len(cfg.backup.globs)
        m == IF Len(cfg.backup.sources) = 0 THEN 1 ELSE Len(cfg.backup.sources)
    IN  CASE fn = "prefix"      -> p
          [] fn = "rustic_base" -> p + 5
          [] fn = "mkdir"       -> p + 3
          [] fn \in {"init", "check", "compact"} -> p + 6
          [] fn = "forget"      -> p + 13
          [] fn = "backup"      -> p + 10 + n + m

\* C26: every configured string (repo path, password, exclusion marker,
\* each source) is one unmodified element of the built vectors, whatever
\* characters it holds: the length of each vector depends only on the
\* elevation flag and on the numbers of globs and sources.
C26_StringsAreSingleElements ==
    LET p == IF cli.sudo THEN 1 ELSE 0
    IN  /\ \A fn \in RunStages \cup {"prefix", "rustic_base"} :
             Built(fn) => Len(rsArgs) = ClaimedLen(fn)
        /\ Built("mkdir") => rsArgs[p + 3] = cfg.repo.path
        /\ \A fn \in (RunStages \ {"mkdir"}) \cup {"rustic_base"} :
             Built(fn) => /\ rsArgs[p + 3] = cfg.repo.path
                          /\ rsArgs[p + 5] = cfg.repo.password
        /\ Built("backup") =>
             /\ rsArgs[p + 10] = cfg.backup.exclude_if_present
             /\ \A j \in 1..Len(cfg.backup.sources) :
                   rsArgs[p + 10 + Len(cfg.backup.globs) + j]
                     = cfg.backup.sources[j]

C26_Witness ==
    /\ Built("backup")
    /\ ~cli.sudo
    /\ rsArgs[3] = "/mnt/my nas/repo"
    /\ rsArgs[5] = "p@ss w0rd; $HOME"
    /\ rsArgs[10] = ".no backup"
    /\ Last(rsArgs) = "/b c"
    /\ Len(rsArgs) = 10 + Len(cfg.backup.globs) + Len(cfg.backup.sources)

\* Positions of the launch list holding a launch of mount_share with the
\* given first three tokens (`doas mount`, or `doas mount -t nfs ...`).
MountLaunches(nfs) ==
    { i \in 1..Len(spawned) :
        /\ ~spawned[i].spinner
        /\ (Len(spawned[i].args) > 2) = nfs }

\* C27: no stage is retried: within one run the command of each stage is
\* launched at most once and each stage label occurs at most once in the
\* outcome list, whatever the results of the stages.
C27_NoRetry ==
    /\ \A s \in RunStages : Cardinality(Ran(s)) <= 1
    /\ \A nfs \in BOOLEAN : Cardinality(MountLaunches(nfs)) <= 1
    /\ Len(spawned) <= 8
    /\ \A s \in RunStages \cup {"Mount"} :
         Cardinality(Recorded(StageLabel(s))) <= 1

C27_Witness ==
    /\ Returned
    /\ ~result.ok
    /\ RecordedFailed("Backup")
    /\ Cardinality(Ran("backup")) = 1
    /\ Cardinality(Recorded("Backup")) = 1

\* The status lines on the terminal, in order.
IsStatusLine(l) == l.kind \in {"status_ok", "status_err"}

StatusLines == SelectSeq(term, IsStatusLine)

\* Every recorded outcome is rendered, and nothing else is.
RenderedIsRecorded ==
    /\ Len(StatusLines) = Len(outcomes)
    /\ \A i \in 1..Len(outcomes) :
         /\ StatusLines[i].text = outcomes[i].label
         /\ (StatusLines[i].kind = "status_ok") = outcomes[i].success

\* C28: execution is strictly sequential: at most one stage is executing at
\* any time, a stage begins only after the outcome of the previous stage was
\* rendered and appended to the outcome list, and the list holds an outcome
\* only for stages that ran to completion, so that an interruption while a
\* stage is executing leaves no outcome recorded for that stage.
C28_StrictlySequential ==
    \* one stage at a time: the spinner, if any, is the one of the stage
    \* worked on, which is inside run_stage
    /\ spinner # None =>
         /\ stage \in RunStages
         /\ spinner = Label(stage)
         /\ pc \in {"rs_run", "rs_clear", "killed"}
    \* when a stage begins or executes, everything launched before belongs
    \* to stages whose outcome is rendered and appended
    /\ (pc \in {"exec", "rs_run"}) =>
         /\ RenderedIsRecorded
         /\ \A s \in RunStages : Ran(s) # {} => Recorded(Label(s)) # {}
         /\ MountAttempted => Recorded("Mount") # {}
    \* an outcome is recorded only for a stage that ran to completion
    /\ \A s \in RunStages : Recorded(Label(s)) # {} =>
         /\ Ran(s) # {}
         /\ ~(stage = s /\ pc \in {"exec", "rs_run", "rs_clear", "rs_match",
                                   "print", "push"})
    \* an interruption while a stage is executing
    /\ (pc = "killed" /\ spinner # None) => Recorded(spinner) = {}

C28_Witness ==
    /\ pc = "killed"
    /\ spinner = "Backup"
    /\ Ran("backup") # {}
    /\ Recorded("Check") # {}
    /\ Recorded("Backup") = {}

\* No stage was executed or recorded, and nothing of a stage was written.
NoStageRan ==
    /\ spawned = <<>>
    /\ outcomes = <<>>
    /\ stage = "none"
    /\ \A i \in 1..Len(term) : term[i].kind = "config"

\* C29: no pipeline stage runs when loading the configuration fails or when
\* --print-config is given: a configuration error makes the process exit
\* non-zero before the Mount stage is reached, and --print-config prints the
\* configuration and exits zero without executing or recording any stage.
C29_NoStageWithoutRun ==
    \* with --print-config run() is never entered
    /\ cli.print_config =>
         /\ pc \in {"main", "exit"}
         /\ NoStageRan
         /\ (pc = "exit" /\ exitCode = 0) =>
               term = << Line("out", "config", "cfg") >>
    \* the process ended without run() having returned: a configuration
    \* error (non-zero) or --print-config (zero)
    /\ (pc = "exit" /\ ~Returned) =>
         /\ NoStageRan
         /\ exitCode \in {0, 1}
         /\ exitCode = 0 => cli.print_config
         /\ exitCode = 1 => term = <<>>

C29_Witness ==
    /\ pc = "exit"
    /\ cli.print_config
    /\ exitCode = 0
    /\ term = << Line("out", "config", "cfg") >>
    /\ ~cli.no_mount /\ cfg.mount.share = "new-backups"

\* mount_share has just returned `cur`.
MountShareReturned == stage = "Mount" /\ pc \in {"print", "push"}

\* C30: mount_share called with no share configured returns, without
\* panicking and without launching any process, a failed outcome labelled
\* "Mount" whose error message names [mount].share and whose stdout and
\* stderr are empty.
C30_MountWithoutShare ==
    cfg.mount.share = None =>
      /\ spawned = <<>>
      /\ MountShareReturned =>
           cur = [label |-> "Mount", success |-> FALSE, stdout |-> <<>>,
                  stderr |-> <<>>,
                  error |-> "[mount].share" \o
                            " is not set -- add 'share = \"new-backups\"' to backup.toml"]

C30_Witness ==
    /\ cfg.mount.share = None
    /\ MountShareReturned
    /\ pc = "push"
    /\ ~cur.success
    /\ Len(outcomes) = 1

\* mount_share is called by run() with a share name the share map does not
\* know.
UnknownShareRun ==
    /\ ~cli.no_mount
    /\ cfg.mount.share # None
    /\ nfs_source(cfg.mount.share) = None

\* C31: a share name that is not in the known share map always yields a
\* failed Mount outcome, never a success, so the run aborts at Mount: no
\* later stage is launched and run() returns an error.
C31_UnknownShareAbortsAtMount ==
    UnknownShareRun =>
      /\ MountShareReturned => ~cur.success
      /\ ~RecordedOk("Mount")
      /\ \A s \in RunStages : Ran(s) = {}
      /\ Returned => ~result.ok

\* A subprocess launched by mount_share failed: it could not be started or
\* it exited non-zero.
MountLaunchFailed ==
    \E i \in 1..Len(spawned) :
        /\ ~spawned[i].spinner
        /\ (~spawned[i].started \/ ~spawned[i].ok)

\* C32: mount_share returns a failed outcome whenever a subprocess it
\* launched failed: `doas mount` (the list of mounts) or `doas mount -t nfs`
\* not starting or exiting non-zero.
C32_FailedSubprocessFailsMount ==
    (MountShareReturned /\ MountLaunchFailed) => ~cur.success

\* mount_share returned success at once: the mountpoint was not created and
\* the nfs mount command was not run.
ImmediateSuccess ==
    /\ cur.success
    /\ mountSt.mkdir = "none"
    /\ MountLaunches(TRUE) = {}

\* C33: mount_share returns success immediately, without creating the
\* mountpoint directory and without running the nfs mount command, exactly
\* when the configured share is already mounted; when the share is not
\* mounted it creates the mountpoint and runs the mount command.  (Stated
\* for a known share, with every subprocess and the directory creation
\* working.)
C33_ImmediateSuccessIffMounted ==
    (/\ MountShareReturned
     /\ mountSt # NoResult
     /\ nfs_source(cfg.mount.share) # None
     /\ ~MountLaunchFailed
     /\ mountSt.mkdir # "failed") =>
      /\ ImmediateSuccess <=> mountSt.wasMounted
      /\ ~mountSt.wasMounted =>
           /\ mountSt.mkdir = "ok"
           /\ MountLaunches(TRUE) # {}

\* C34: the privilege prefix is prepended to every command the program
\* launches: with elevation disabled no launched command starts with
\* "doas", with elevation enabled every launched command, the mount
\* commands included, starts with "doas".
C34_DoasIffSudo ==
    \A i \in 1..Len(spawned) :
        (Head(spawned[i].args) = "doas") <=> cli.sudo

\* C35: every run terminates: provided that each launched subprocess
\* eventually exits, run() reaches normal completion or an abort, after at
\* most seven stages, with no loop and no waiting state other than a running
\* subprocess.
C35_RunTerminates ==
    /\ <>(pc = "exit")
    /\ [](Len(outcomes) <= 7 /\ Len(spawned) <= 8)
    /\ []((pc = "exit" /\ outcomes # <<>>) => Returned)

C35_Witness ==
    /\ pc = "exit"
    /\ Returned
    /\ result.ok
    /\ Len(outcomes) = 7

\* The command line with nothing but the elevation flag of `cli`.
OnlySudo ==
    [no_mount |-> FALSE, no_prune |-> FALSE, no_check |-> FALSE,
     sudo |-> cli.sudo, print_config |-> FALSE]

ErrorIffFailed(o) == (~o.success) <=> (o.error # None)

\* C38: for every outcome the program constructs, success is false if and
\* only if error is present: the outcome handed to the reporter and every
\* recorded outcome carry an error message exactly when they failed, whether
\* the failure is a spawn error, a non-zero exit or a mount precondition.
C38_FailedIffError ==
    /\ pc \in {"print", "push"} => ErrorIffFailed(cur)
    /\ \A i \in 1..Len(outcomes) : ErrorIffFailed(outcomes[i])

\* a rustic command that exited non-zero reaches the reporter with its
\* captured stderr and the error message
C38_Witness ==
    /\ pc = "print"
    /\ stage \in RunStages
    /\ rsResult # NoResult
    /\ rsResult.isOk
    /\ ~cur.success
    /\ cur.error = "command exited non-zero: " \o join(Args(stage, cli, cfg))
    /\ cur.stderr # <<>>

====
